---- MODULE Spec2Model ----
(***************************************************************************)
(* MedBook reservation engine: the PostgreSQL functions book_slot,         *)
(* confirm_booking, cancel_booking and expire_pending_bookings             *)
(* (backend/supabase/002_functions.sql) running as concurrent READ         *)
(* COMMITTED transactions over the tables slots and bookings               *)
(* (backend/supabase/001_schema.sql).                                      *)
(*                                                                         *)
(* Every call is one autocommit transaction issued by a pool connection.   *)
(* The variables slots and bookings hold the COMMITTED rows; a             *)
(* transaction's writes become visible in the step that commits it, and    *)
(* the row locks it took are held until that step.  NOW() is the start     *)
(* time of the transaction, captured when the call starts.  The column     *)
(* created_at (DEFAULT NOW(), never written again) is left out.            *)
(*                                                                         *)
(* BookingService.getById reads one booking.  Two transactions that wait   *)
(* for each other's row locks are resolved by PostgreSQL's deadlock        *)
(* detector, which aborts one of them.  LiveSpec adds the scheduled sweep  *)
(* (pg_cron) and the fairness of the clock, the transactions and the       *)
(* scheduler.                                                              *)
(*                                                                         *)
(* BookingService.confirm fetches the booking with getById after           *)
(* confirm_booking has committed.  SlotSpec is the slot administration:    *)
(* SlotService.create and SlotService.delete                               *)
(* (backend/src/services/slotService.js), each a sequence of autocommit    *)
(* statements, interleaved with book_slot.                                 *)
(***************************************************************************)
EXTENDS Integers, Sequences, FiniteSets, TLC

\* ---------------------------------------------------------------- bounds
NumProcs == 2
NumSlots == 2
MaxTime == 3
\* transactions started in one behaviour
MaxCalls == 3
\* sweeps that may still be started after them
MaxSweeps == 1
\* start and end times, in half hours, that slotService.create is called with
MaxSlotTime == 3
\* calls in one behaviour of the specification with slot administration
SlotCalls == 3
\* client calls, the first two reservations included, in one behaviour of
\* the specification with the scheduled sweep
LiveCalls == 3

\* ------------------------------------------------------- program constants
\* NOW() + INTERVAL '2 minutes'
ConfirmWindow == 2

\* SQL NULL in a timestamp or count
NULL == 0 - 1

Procs == 1..NumProcs
SlotIds == 1..NumSlots
\* a slot id that references no row of slots
NoSlot == NumSlots + 1
Users == {"u1", "u2"}
\* users.role: u1 is an ordinary user, u2 an administrator
Role(u) == IF u = "u2" THEN "ADMIN" ELSE "USER"
\* ids that a caller may pass as p_booking_id
BookingIds == 1..NumSlots

Statuses == {"PENDING", "CONFIRMED", "FAILED", "CANCELLED"}

\* status IN ('PENDING', 'CONFIRMED')
Active(st) == st \in {"PENDING", "CONFIRMED"}

VARIABLES
    now,            \* the wall clock of the database server
    slots,          \* committed rows of table slots: id -> row
    bookings,       \* committed rows of table bookings, by id 1..Len
    pc,             \* position of each connection's transaction
    tx,             \* parameters, NOW(), local variables and result of it
    slot_locks,     \* slot rows each transaction holds a row lock on
    booking_locks,  \* booking rows each transaction holds a row lock on
    win,            \* history: slot of the current batch of reserve calls
    cancel_ok,      \* history: successful cancels per booking id
    calls,          \* history: transactions started so far
    swept           \* history: NOW() of the latest sweep and of the one before

vars == <<now, slots, bookings, pc, tx, slot_locks, booking_locks, win, cancel_ok, calls, swept>>

NoWin == [slot |-> NoSlot, procs |-> {}]

NoSweep == [at |-> NULL, prev |-> NULL]

\* result is result.rows of a SELECT that returns booking rows
IdleTx == [op |-> "none", user |-> "none", slot |-> NoSlot, booking |-> 0,
           now |-> NULL, rows |-> {}, hit |-> {}, code |-> "none",
           msg |-> "none", count |-> NULL, result |-> << >>,
           doctor_id |-> "none", start_time |-> NULL, end_time |-> NULL]

\* doctor of the seeded slot rows
SeedDoctor(s) == IF s = 1 THEN "d1" ELSE "d2"

\* start of the seeded slot rows, in half hours: the slots of one doctor
\* follow each other, each 30 minutes long
SeedStart(s) == IF s = 1 THEN 0 ELSE s - 2

\* INSERT INTO slots (doctor_id, start_time, end_time): is_available DEFAULT true
NewSlot(d, a, b) ==
    [doctor_id |-> d, start_time |-> a, end_time |-> b, is_available |-> TRUE]

SeedSlot(s) == NewSlot(SeedDoctor(s), SeedStart(s), SeedStart(s) + 1)

\* ------------------------------------------------------------- row access
SlotLockedByOther(p, s) == \E q \in Procs \ {p} : s \in slot_locks[q]

BookingLockedByOther_ignored(p, b) == FALSE

BookingLockedByOther(p, b) == \E q \in Procs \ {p} : b \in booking_locks[q]

\* CONSTRAINT unique_active_booking UNIQUE (slot_id)
unique_active_booking(bks, row) ==
    \E b \in DOMAIN bks : bks[b].slot_id = row.slot_id

\* WHERE s.id = p_slot_id AND s.is_available = true
SlotRowFound_or_hold_lapsed(s) ==
    /\ s \in DOMAIN slots
    /\ \/ slots[s].is_available
       \/ \E b \in DOMAIN bookings :
             /\ bookings[b].slot_id = s /\ bookings[b].status = "PENDING"
             /\ bookings[b].expires_at < now

SlotRowFound(s) == s \in DOMAIN slots /\ slots[s].is_available

\* WHERE id = p_booking_id AND user_id = p_user_id
BookingRowFound_any_owner(b, u) == b \in DOMAIN bookings

BookingRowFound(b, u) == b \in DOMAIN bookings /\ bookings[b].user_id = u

\* UPDATE slots SET is_available = v WHERE id = s
SetAvailable_dropped(sl, s, v) == sl

SetAvailable(sl, s, v) ==
    IF s \in DOMAIN sl THEN [sl EXCEPT ![s].is_available = v] ELSE sl

\* BEFORE UPDATE trigger update_bookings_updated_at
Touch(row, t) == [row EXCEPT !.updated_at = t]

Finish(p, code, msg, count) ==
    /\ pc' = [pc EXCEPT ![p] = "done"]
    /\ tx' = [tx EXCEPT ![p].code = code, ![p].msg = msg, ![p].count = count,
                         ![p].now = NULL, ![p].rows = {}, ![p].hit = {}]
    /\ slot_locks' = [slot_locks EXCEPT ![p] = {}]
    /\ booking_locks' = [booking_locks EXCEPT ![p] = {}]

\* ------------------------------------------------------------------ Init
Init ==
    /\ now = 0
    /\ slots = [s \in SlotIds |-> SeedSlot(s)]
    /\ bookings = << >>
    /\ pc = [p \in Procs |-> "idle"]
    /\ tx = [p \in Procs |-> IdleTx]
    /\ slot_locks = [p \in Procs |-> {}]
    /\ booking_locks = [p \in Procs |-> {}]
    /\ win = NoWin
    /\ cancel_ok = [b \in BookingIds |-> 0]
    /\ calls = 0
    /\ swept = NoSweep

\* time passes
Tick ==
    /\ now < MaxTime
    /\ now' = now + 1
    /\ UNCHANGED <<slots, bookings, pc, tx, slot_locks, booking_locks, win, cancel_ok, calls, swept>>

\* no transaction is in flight
Quiet == \A q \in Procs : pc[q] \in {"idle", "done"}

\* history: the batch of overlapping book_slot calls on one slot that was
\* available when the first of them started, with nothing else running
NextWin(p, op, s) ==
    IF op = "book" /\ Quiet /\ SlotRowFound(s) THEN [slot |-> s, procs |-> {p}]
    ELSE IF op = "book" /\ ~Quiet /\ win.procs # {} /\ win.slot = s /\ p \notin win.procs
         THEN [win EXCEPT !.procs = @ \cup {p}]
    ELSE NoWin

\* history: swept.at is the NOW() of the latest sweep started, provided no
\* other sweep and no book_slot was in flight when it started and no
\* book_slot has started since; swept.prev is the same of the sweep before it
NextSwept(op) ==
    IF op = "sweep"
    THEN IF \A q \in Procs : pc[q] \notin {"sweep", "book_insert"}
         THEN [at |-> now, prev |-> swept.at]
         ELSE NoSweep
    ELSE IF op = "book" THEN NoSweep
    ELSE swept

\* bookingService.confirm: confirm_booking has returned success and the
\* call has still to run "return this.getById(userId, bookingId)"
FetchPending(p) ==
    pc[p] = "done" /\ tx[p].op = "confirm" /\ tx[p].code = "OK" /\ tx[p].result = << >>

\* A pool connection starts a transaction: pool.query('SELECT f($1, $2)').
\* The answer of its previous call stays readable until then.
StartTx(p, op, u, s, b) ==
    /\ pc[p] \in {"idle", "done"}
    /\ ~FetchPending(p)
    /\ \/ calls < MaxCalls
       \/ op = "sweep" /\ calls < MaxCalls + MaxSweeps
    /\ calls' = calls + 1
    /\ win' = NextWin(p, op, s)
    /\ swept' = NextSwept(op)

\* the transaction's parameters and NOW()
NewTx(op, u, s, b) ==
    [IdleTx EXCEPT !.op = op, !.user = u, !.slot = s, !.booking = b, !.now = now]

\* bookingService.confirm -> confirm_booking(p_user_id, p_booking_id)
BeginConfirm(p) ==
    \E u \in Users, b \in BookingIds :
       /\ StartTx(p, "confirm", u, NoSlot, b)
       /\ pc' = [pc EXCEPT ![p] = "confirm_select"]
       /\ tx' = [tx EXCEPT ![p] = NewTx("confirm", u, NoSlot, b)]
       /\ UNCHANGED <<now, slots, bookings, slot_locks, booking_locks, cancel_ok>>

\* bookingService.cancel -> cancel_booking(p_user_id, p_booking_id)
BeginCancel(p) ==
    \E u \in Users, b \in BookingIds :
       /\ StartTx(p, "cancel", u, NoSlot, b)
       /\ pc' = [pc EXCEPT ![p] = "cancel_select"]
       /\ tx' = [tx EXCEPT ![p] = NewTx("cancel", u, NoSlot, b)]
       /\ UNCHANGED <<now, slots, bookings, slot_locks, booking_locks, cancel_ok>>

\* ------------------------------------------------------------- book_slot
\* The control flow of book_slot: which error, if any, ends the call.
\* lockNotAvailable: FOR UPDATE NOWAIT found the row locked; found: the
\* SELECT returned a row; uniqueViolation: the INSERT hit unique_active_booking.
book_slot_error_unchecked(lockNotAvailable, found, uniqueViolation) == "OK"

book_slot_error_lock_ignored(lockNotAvailable, found, uniqueViolation) ==
    IF ~found THEN "SLOT_UNAVAILABLE"
    ELSE IF uniqueViolation THEN "SLOT_ALREADY_BOOKED"
    ELSE "OK"

book_slot_error(lockNotAvailable, found, uniqueViolation) ==
    IF lockNotAvailable THEN "SLOT_LOCKED"
    ELSE IF ~found THEN "SLOT_UNAVAILABLE"
    ELSE IF uniqueViolation THEN "SLOT_ALREADY_BOOKED"
    ELSE "OK"

\* INSERT INTO bookings (...) VALUES (..., 'PENDING', NOW() + INTERVAL '2 minutes')
NewBooking_no_window(u, s, d, t) ==
    [user_id |-> u, slot_id |-> s, doctor_id |-> d, status |-> "PENDING",
     expires_at |-> t, confirmed_at |-> NULL, cancelled_at |-> NULL,
     updated_at |-> t]

NewBooking(u, s, d, t) ==
    [user_id |-> u, slot_id |-> s, doctor_id |-> d, status |-> "PENDING",
     expires_at |-> t + ConfirmWindow, confirmed_at |-> NULL, cancelled_at |-> NULL,
     updated_at |-> t]

\* the id of a new booking row (uuid_generate_v4()): one that no row has
NewBookingId(bks) ==
    IF DOMAIN bks = {} THEN 1
    ELSE 1 + CHOOSE m \in DOMAIN bks : \A b \in DOMAIN bks : b <= m

\* the table with the new row in it
InsertBooking(bks, row) ==
    [b \in DOMAIN bks \cup {NewBookingId(bks)} |->
        IF b \in DOMAIN bks THEN bks[b] ELSE row]

\* bookingService.create -> book_slot(p_user_id, p_slot_id), up to Step 2:
\* SELECT ... WHERE is_available = true FOR UPDATE OF s NOWAIT never waits,
\* so it runs as the call starts
BookSlotSelect(p) ==
    \E u \in Users, s \in SlotIds \cup DOMAIN slots \cup {NoSlot} :
       /\ StartTx(p, "book", u, s, 0)
       /\ LET err == book_slot_error(SlotRowFound(s) /\ SlotLockedByOther(p, s),
                                     SlotRowFound(s), FALSE)
          IN IF err = "OK"
             THEN /\ pc' = [pc EXCEPT ![p] = "book_insert"]
                  /\ tx' = [tx EXCEPT ![p] = NewTx("book", u, s, 0)]
                  /\ slot_locks' = [slot_locks EXCEPT ![p] = {s}]
                  /\ UNCHANGED booking_locks
             ELSE /\ pc' = [pc EXCEPT ![p] = "done"]
                  /\ tx' = [tx EXCEPT ![p] = [IdleTx EXCEPT !.op = "book", !.user = u,
                                                            !.slot = s, !.code = err]]
                  /\ UNCHANGED <<slot_locks, booking_locks>>
       /\ UNCHANGED <<now, slots, bookings, cancel_ok>>

\* Step 3-5: INSERT INTO bookings, UPDATE slots, RETURN; or unique_violation
BookSlotInsert_flag_not_rolled_back(p) ==
    /\ pc[p] = "book_insert"
    /\ LET s == tx[p].slot
           row == NewBooking(tx[p].user, s,
                             IF s \in DOMAIN slots THEN slots[s].doctor_id ELSE "none",
                             tx[p].now)
           err == book_slot_error(FALSE, TRUE, unique_active_booking(bookings, row))
       IN /\ slots' = SetAvailable(slots, s, FALSE)
          /\ IF err = "OK"
             THEN /\ bookings' = InsertBooking(bookings, row)
                  /\ pc' = [pc EXCEPT ![p] = "done"]
                  /\ tx' = [tx EXCEPT ![p].code = "OK", ![p].booking = NewBookingId(bookings)]
                  /\ slot_locks' = [slot_locks EXCEPT ![p] = {}]
                  /\ booking_locks' = [booking_locks EXCEPT ![p] = {}]
             ELSE /\ Finish(p, err, "none", NULL)
                  /\ UNCHANGED bookings
    /\ UNCHANGED <<now, win, cancel_ok, calls, swept>>

BookSlotInsert(p) ==
    /\ pc[p] = "book_insert"
    /\ LET s == tx[p].slot
           row == NewBooking(tx[p].user, s,
                             IF s \in DOMAIN slots THEN slots[s].doctor_id ELSE "none",
                             tx[p].now)
           err == book_slot_error(FALSE, TRUE, unique_active_booking(bookings, row))
       IN IF err = "OK"
          THEN /\ bookings' = InsertBooking(bookings, row)
               /\ slots' = SetAvailable(slots, s, FALSE)
               /\ pc' = [pc EXCEPT ![p] = "done"]
               /\ tx' = [tx EXCEPT ![p].code = "OK", ![p].booking = NewBookingId(bookings)]
               /\ slot_locks' = [slot_locks EXCEPT ![p] = {}]
               /\ booking_locks' = [booking_locks EXCEPT ![p] = {}]
          ELSE /\ Finish(p, err, "none", NULL)
               /\ UNCHANGED <<slots, bookings>>
    /\ UNCHANGED <<now, win, cancel_ok, calls, swept>>

\* ------------------------------------------------------- confirm_booking
\* IF v_booking.expires_at < NOW()
Expired_never(row, t) == FALSE

Expired(row, t) == row.expires_at < t

\* IF v_booking.status != 'PENDING' is the refusal
Confirmable_or_confirmed(row) == row.status \in {"PENDING", "CONFIRMED"}

Confirmable_any_status(row) == TRUE

Confirmable(row) == row.status = "PENDING"

\* UPDATE bookings SET status = 'CONFIRMED', confirmed_at = NOW(), expires_at = NULL
ConfirmRow_keeps_deadline(row, t) ==
    Touch([row EXCEPT !.status = "CONFIRMED", !.confirmed_at = t], t)

ConfirmRow_no_timestamp(row, t) ==
    Touch([row EXCEPT !.status = "CONFIRMED", !.expires_at = NULL], t)

ConfirmRow(row, t) ==
    Touch([row EXCEPT !.status = "CONFIRMED", !.confirmed_at = t, !.expires_at = NULL], t)

\* UPDATE bookings SET status = 'FAILED'
FailRow(row, t) == Touch([row EXCEPT !.status = "FAILED"], t)

\* SELECT ... FOR UPDATE, the status check, the expiry check and the confirming UPDATE
ConfirmSelect(p) ==
    /\ pc[p] = "confirm_select"
    /\ LET b == tx[p].booking
       IN IF ~BookingRowFound(b, tx[p].user)
          THEN /\ Finish(p, "BOOKING_NOT_FOUND", "Booking not found", NULL)
               /\ UNCHANGED bookings
          ELSE /\ ~BookingLockedByOther(p, b)
               /\ IF ~Confirmable(bookings[b])
                  THEN /\ Finish(p, "INVALID_STATUS", bookings[b].status, NULL)
                       /\ UNCHANGED bookings
                  ELSE IF Expired(bookings[b], tx[p].now)
                  THEN /\ pc' = [pc EXCEPT ![p] = "confirm_release"]
                       /\ booking_locks' = [booking_locks EXCEPT ![p] = {b}]
                       /\ UNCHANGED <<tx, slot_locks, bookings>>
                  ELSE /\ bookings' = [bookings EXCEPT ![b] = ConfirmRow(@, tx[p].now)]
                       /\ Finish(p, "OK", "none", NULL)
    /\ UNCHANGED <<now, slots, win, cancel_ok, calls, swept>>

\* the expired branch: UPDATE bookings SET status = 'FAILED'; UPDATE slots; RETURN
ConfirmRelease(p) ==
    /\ pc[p] = "confirm_release"
    /\ LET b == tx[p].booking
           s == bookings[b].slot_id
       IN /\ ~SlotLockedByOther(p, s)
          /\ bookings' = [bookings EXCEPT ![b] = FailRow(@, tx[p].now)]
          /\ slots' = SetAvailable(slots, s, TRUE)
          /\ Finish(p, "BOOKING_EXPIRED", "none", NULL)
    /\ UNCHANGED <<now, win, cancel_ok, calls, swept>>

\* -------------------------------------------------------- cancel_booking
\* IF v_booking.status NOT IN ('PENDING', 'CONFIRMED')
Cancellable_always(row) == TRUE

Cancellable(row) == row.status \in {"PENDING", "CONFIRMED"}

\* UPDATE bookings SET status = 'CANCELLED', cancelled_at = NOW()
CancelRow_no_timestamp(row, t) == Touch([row EXCEPT !.status = "CANCELLED"], t)

CancelRow_checks_deadline(row, t) ==
    IF row.status = "PENDING" /\ row.expires_at < t
    THEN FailRow(row, t)
    ELSE Touch([row EXCEPT !.status = "CANCELLED", !.cancelled_at = t], t)

CancelRow(row, t) == Touch([row EXCEPT !.status = "CANCELLED", !.cancelled_at = t], t)

\* SELECT ... FOR UPDATE and the status check
CancelSelect(p) ==
    /\ pc[p] = "cancel_select"
    /\ LET b == tx[p].booking
       IN IF ~BookingRowFound(b, tx[p].user)
          THEN Finish(p, "BOOKING_NOT_FOUND", "Booking not found", NULL)
          ELSE /\ ~BookingLockedByOther(p, b)
               /\ IF ~Cancellable(bookings[b])
                  THEN Finish(p, "INVALID_STATUS", bookings[b].status, NULL)
                  ELSE /\ pc' = [pc EXCEPT ![p] = "cancel_release"]
                       /\ booking_locks' = [booking_locks EXCEPT ![p] = {b}]
                       /\ UNCHANGED <<tx, slot_locks>>
    /\ UNCHANGED <<now, slots, bookings, win, cancel_ok, calls, swept>>

\* UPDATE bookings SET status = 'CANCELLED'; UPDATE slots SET is_available = true; RETURN
CancelRelease(p) ==
    /\ pc[p] = "cancel_release"
    /\ LET b == tx[p].booking
           s == bookings[b].slot_id
       IN /\ ~SlotLockedByOther(p, s)
          /\ bookings' = [bookings EXCEPT ![b] = CancelRow(@, tx[p].now)]
          /\ slots' = SetAvailable(slots, s, TRUE)
          /\ cancel_ok' = [cancel_ok EXCEPT ![b] = IF @ < 2 THEN @ + 1 ELSE @]
          /\ Finish(p, "OK", "none", NULL)
    /\ UNCHANGED <<now, win, calls, swept>>

\* ------------------------------------------------ expire_pending_bookings
\* WHERE status = 'PENDING' AND expires_at < NOW()
SweepQual_ignores_deadline(row, t) == row.status = "PENDING"

SweepQual(row, t) == row.status = "PENDING" /\ row.expires_at < t

\* the rows whose version in the UPDATE's snapshot passes the WHERE clause
SweepCandidates_empty(bks, t) == {}

SweepCandidates(bks, t) == {b \in DOMAIN bks : SweepQual(bks[b], t)}

\* READ COMMITTED: after waiting for a row's lock the UPDATE evaluates its
\* WHERE clause again, on the newest committed version of the row
EvalPlanQual(row, t) == SweepQual(row, t)

\* the slots named by RETURNING slot_id
SweepSlots_first_slot(hit) == {1} \cap DOMAIN slots

SweepSlots(hit) == {bookings[b].slot_id : b \in hit} \cap DOMAIN slots

\* bookingService.expirePendingBookings -> expire_pending_bookings(): the
\* UPDATE takes its snapshot, the rows whose committed version qualifies
SweepBegin(p, caller) ==
    /\ pc' = [pc EXCEPT ![p] = "sweep"]
    /\ tx' = [tx EXCEPT ![p] =
                [NewTx("sweep", caller, NoSlot, 0) EXCEPT
                   !.rows = SweepCandidates(bookings, now)]]
    /\ UNCHANGED <<now, slots, bookings, slot_locks, booking_locks, cancel_ok>>

\* POST /bookings/expire: a client calls the sweep
SweepSnapshot(p) ==
    /\ StartTx(p, "sweep", "none", NoSlot, 0)
    /\ SweepBegin(p, "none")

\* "Called by a scheduled job (pg_cron)": cron.schedule('expire-bookings',
\* '* * * * *', ...) runs the sweep on a free connection again and again,
\* whatever the clients do; pg_cron runs one instance of a job at a time
ScheduledSweep(p) ==
    /\ pc[p] \in {"idle", "done"}
    /\ ~FetchPending(p)
    /\ \A q \in Procs : ~(pc[q] = "sweep" /\ tx[q].user = "pg_cron")
    /\ win' = NextWin(p, "sweep", NoSlot)
    /\ swept' = NextSwept("sweep")
    /\ SweepBegin(p, "pg_cron")
    /\ UNCHANGED calls

\* the UPDATE reaches one row of its snapshot: it waits for the row's lock,
\* re-checks the WHERE clause on the newest committed version and locks it
SweepRow(p) ==
    /\ pc[p] = "sweep"
    /\ \E b \in tx[p].rows :
          /\ ~BookingLockedByOther(p, b)
          /\ IF EvalPlanQual(bookings[b], tx[p].now)
             THEN /\ tx' = [tx EXCEPT ![p].rows = @ \ {b}, ![p].hit = @ \cup {b}]
                  /\ booking_locks' = [booking_locks EXCEPT ![p] = @ \cup {b}]
             ELSE /\ tx' = [tx EXCEPT ![p].rows = @ \ {b}]
                  /\ UNCHANGED booking_locks
    /\ UNCHANGED <<now, slots, bookings, pc, slot_locks, win, cancel_ok, calls, swept>>

\* UPDATE slots ... WHERE id IN (SELECT slot_id FROM expired): lock one slot row
SweepSlot(p) ==
    /\ pc[p] = "sweep"
    /\ tx[p].rows = {}
    /\ \E s \in SweepSlots(tx[p].hit) \ slot_locks[p] :
          /\ ~SlotLockedByOther(p, s)
          /\ slot_locks' = [slot_locks EXCEPT ![p] = @ \cup {s}]
    /\ UNCHANGED <<now, slots, bookings, pc, tx, booking_locks, win, cancel_ok, calls, swept>>

\* GET DIAGNOSTICS v_expired_count = ROW_COUNT; RETURN; commit
SweepCommit(p) ==
    /\ pc[p] = "sweep"
    /\ tx[p].rows = {}
    /\ SweepSlots(tx[p].hit) \subseteq slot_locks[p]
    /\ bookings' = [b \in DOMAIN bookings |->
                      IF b \in tx[p].hit THEN FailRow(bookings[b], tx[p].now) ELSE bookings[b]]
    /\ slots' = [s \in DOMAIN slots |->
                   IF s \in SweepSlots(tx[p].hit) THEN [slots[s] EXCEPT !.is_available = TRUE]
                   ELSE slots[s]]
    /\ Finish(p, "OK", "none", Cardinality(SweepSlots(tx[p].hit)))
    /\ UNCHANGED <<now, win, cancel_ok, calls, swept>>

\* ---------------------------------------------------------------- getById
\* WHERE b.id = $1, and AND b.user_id = $2 unless isAdmin
GetByIdFound(b, u, isAdmin) ==
    b \in DOMAIN bookings /\ (isAdmin \/ bookings[b].user_id = u)

\* bookingController.getById -> bookingService.getById(req.user.id, id, isAdmin):
\* one SELECT, takes no lock; ApiError.notFound when it returns no row
GetById(p) ==
    \E u \in Users, b \in BookingIds :
       /\ StartTx(p, "get", u, NoSlot, b)
       /\ pc' = [pc EXCEPT ![p] = "done"]
       /\ tx' = [tx EXCEPT ![p] =
                   IF GetByIdFound(b, u, Role(u) = "ADMIN")
                   THEN [IdleTx EXCEPT !.op = "get", !.user = u, !.booking = b,
                                       !.code = "OK", !.result = <<bookings[b]>>]
                   ELSE [IdleTx EXCEPT !.op = "get", !.user = u, !.booking = b,
                                       !.code = "NOT_FOUND", !.msg = "Booking not found"]]
       /\ UNCHANGED <<now, slots, bookings, slot_locks, booking_locks, cancel_ok>>

\* bookingService.confirm, after confirm_booking returned success: "Fetch
\* updated booking", a second statement in a transaction of its own, with
\* isAdmin left at its default false
ConfirmFetch(p) ==
    /\ FetchPending(p)
    /\ LET b == tx[p].booking
       IN tx' = [tx EXCEPT ![p] =
                   IF GetByIdFound(b, tx[p].user, FALSE)
                   THEN [@ EXCEPT !.result = <<bookings[b]>>]
                   ELSE [@ EXCEPT !.code = "NOT_FOUND", !.msg = "Booking not found"]]
    /\ UNCHANGED <<now, slots, bookings, pc, slot_locks, booking_locks, win, cancel_ok,
                   calls, swept>>

\* ------------------------------------------------------ deadlock detector
\* the transactions that hold a row lock p's next statement needs, when no
\* row it could go on with is free
WaitsFor(p) ==
    IF pc[p] \in {"confirm_select", "cancel_select"}
    THEN IF BookingRowFound(tx[p].booking, tx[p].user)
         THEN {q \in Procs \ {p} : tx[p].booking \in booking_locks[q]}
         ELSE {}
    ELSE IF pc[p] \in {"confirm_release", "cancel_release"}
    THEN {q \in Procs \ {p} : bookings[tx[p].booking].slot_id \in slot_locks[q]}
    ELSE IF pc[p] = "sweep" /\ tx[p].rows # {}
    THEN IF \A b \in tx[p].rows : BookingLockedByOther(p, b)
         THEN {q \in Procs \ {p} : booking_locks[q] \cap tx[p].rows # {}}
         ELSE {}
    ELSE IF pc[p] = "sweep"
    THEN LET need == SweepSlots(tx[p].hit) \ slot_locks[p]
         IN IF need # {} /\ \A s \in need : SlotLockedByOther(p, s)
            THEN {q \in Procs \ {p} : slot_locks[q] \cap need # {}}
            ELSE {}
    ELSE {}

\* the transactions reached from S along at most n more waits
RECURSIVE WaitChain(_, _)
WaitChain(S, n) ==
    IF n = 0 THEN S ELSE WaitChain(S \cup UNION {WaitsFor(q) : q \in S}, n - 1)

\* p waits, directly or through others, for a lock held by a transaction
\* that waits for p
Deadlocked(p) == p \in WaitChain(WaitsFor(p), NumProcs)

\* PostgreSQL's deadlock detector: a waiting transaction that finds itself in
\* a cycle is aborted with deadlock_detected (40P01); no function handles
\* it, so the transaction rolls back and pool.query rejects
DeadlockDetected(p) ==
    /\ Deadlocked(p)
    /\ Finish(p, "DEADLOCK_DETECTED", "deadlock detected", NULL)
    /\ UNCHANGED <<now, slots, bookings, win, cancel_ok, calls, swept>>

\* ------------------------------------------------------------------ Next
Next ==
    \/ Tick
    \/ \E p \in Procs :
          \/ BookSlotSelect(p)
          \/ BookSlotInsert(p)
          \/ BeginConfirm(p)
          \/ ConfirmSelect(p)
          \/ ConfirmRelease(p)
          \/ BeginCancel(p)
          \/ CancelSelect(p)
          \/ CancelRelease(p)
          \/ SweepSnapshot(p)
          \/ SweepRow(p)
          \/ SweepSlot(p)
          \/ SweepCommit(p)
          \/ GetById(p)
          \/ ConfirmFetch(p)
          \/ DeadlockDetected(p)

Spec == Init /\ [][Next]_vars

\* ---------------------------------------------- with the scheduled sweep
\* a statement of a transaction in flight is executed
TxStep(p) ==
    \/ BookSlotInsert(p)
    \/ ConfirmSelect(p)
    \/ ConfirmRelease(p)
    \/ CancelSelect(p)
    \/ CancelRelease(p)
    \/ SweepRow(p)
    \/ SweepSlot(p)
    \/ SweepCommit(p)
    \/ ConfirmFetch(p)
    \/ DeadlockDetected(p)

\* the state reached from Init by book_slot("u1", 1) on one connection and
\* then book_slot("u2", 2) on the other, both at time 0
LiveInit ==
    /\ now = 0
    /\ slots = [s \in SlotIds |-> [SeedSlot(s) EXCEPT !.is_available = s > 2]]
    /\ bookings = <<NewBooking("u1", 1, SeedDoctor(1), 0), NewBooking("u2", 2, SeedDoctor(2), 0)>>
    /\ pc = [p \in Procs |-> IF p <= 2 THEN "done" ELSE "idle"]
    /\ tx = [p \in Procs |->
                IF p = 1 THEN [NewTx("book", "u1", 1, 1) EXCEPT !.code = "OK"]
                ELSE IF p = 2 THEN [NewTx("book", "u2", 2, 2) EXCEPT !.code = "OK"]
                ELSE IdleTx]
    /\ slot_locks = [p \in Procs |-> {}]
    /\ booking_locks = [p \in Procs |-> {}]
    /\ win = [slot |-> 2, procs |-> {2}]
    /\ cancel_ok = [b \in BookingIds |-> 0]
    /\ calls = 2
    /\ swept = NoSweep

\* the clients make at most LiveCalls calls; the scheduler keeps sweeping
LiveNext ==
    \/ Tick
    \/ \E p \in Procs :
          \/ calls < LiveCalls /\ BookSlotSelect(p)
          \/ calls < LiveCalls /\ BeginConfirm(p)
          \/ calls < LiveCalls /\ BeginCancel(p)
          \/ calls < LiveCalls /\ SweepSnapshot(p)
          \/ calls < LiveCalls /\ GetById(p)
          \/ TxStep(p)
          \/ ScheduledSweep(p)

\* the clock advances, the database executes the statements of every
\* transaction it has started, and the scheduler starts sweeps for ever
LiveSpec ==
    /\ LiveInit
    /\ [][LiveNext]_vars
    /\ WF_vars(Tick)
    /\ \A p \in Procs : WF_vars(TxStep(p))
    /\ WF_vars(\E p \in Procs : ScheduledSweep(p))

\* ----------------------------------------------------------- slotService
\* rows of table doctors with is_active = true
Doctors == {"d1", "d2"}

SlotTimes == 0..MaxSlotTime

\* the WHERE clause of SlotService.create's overlap check, $2 = a, $3 = b
Overlaps(row, a, b) ==
    \/ row.start_time <= a /\ row.end_time > a
    \/ row.start_time < b /\ row.end_time >= b
    \/ row.start_time >= a /\ row.end_time <= b

\* SlotService.create, its two SELECTs: doctorCheck and overlapCheck. The
\* new row's id (uuid_generate_v4()) is one no slot ever had.
CreateCheck(p) ==
    \E d \in Doctors \cup {"d0"}, a \in SlotTimes, b \in SlotTimes :
       /\ StartTx(p, "create", "none", NoSlot, 0)
       /\ LET call == [IdleTx EXCEPT !.op = "create", !.doctor_id = d,
                                     !.start_time = a, !.end_time = b]
          IN IF d \notin Doctors
             THEN /\ pc' = [pc EXCEPT ![p] = "done"]
                  /\ tx' = [tx EXCEPT ![p] =
                              [call EXCEPT !.code = "NOT_FOUND", !.msg = "Doctor not found"]]
             ELSE IF \E s \in DOMAIN slots :
                        slots[s].doctor_id = d /\ Overlaps(slots[s], a, b)
             THEN /\ pc' = [pc EXCEPT ![p] = "done"]
                  /\ tx' = [tx EXCEPT ![p] =
                              [call EXCEPT !.code = "CONFLICT",
                                           !.msg = "Slot overlaps with existing slot"]]
             ELSE /\ pc' = [pc EXCEPT ![p] = "create_insert"]
                  /\ tx' = [tx EXCEPT ![p] =
                              [call EXCEPT !.now = now, !.slot = NoSlot + calls + 1]]
       /\ UNCHANGED <<now, slots, bookings, slot_locks, booking_locks, cancel_ok>>

\* SlotService.create, its INSERT INTO slots, a transaction of its own:
\* CHECK (end_time > start_time) and UNIQUE (doctor_id, start_time) are the
\* only constraints; pool.query rejects when one of them fails
CreateInsert(p) ==
    /\ pc[p] = "create_insert"
    /\ LET d == tx[p].doctor_id
           a == tx[p].start_time
           b == tx[p].end_time
           id == tx[p].slot
       IN IF ~(b > a)
          THEN /\ Finish(p, "CHECK_VIOLATION", "valid_time_range", NULL)
               /\ UNCHANGED slots
          ELSE IF \E s \in DOMAIN slots :
                     slots[s].doctor_id = d /\ slots[s].start_time = a
          THEN /\ Finish(p, "UNIQUE_VIOLATION", "unique_doctor_slot", NULL)
               /\ UNCHANGED slots
          ELSE /\ slots' = [s \in DOMAIN slots \cup {id} |->
                              IF s = id THEN NewSlot(d, a, b) ELSE slots[s]]
               /\ Finish(p, "OK", "none", NULL)
    /\ UNCHANGED <<now, bookings, win, cancel_ok, calls, swept>>

\* SlotService.delete, its SELECT: "Check if slot has active bookings"
DeleteCheck(p) ==
    \E s \in SlotIds \cup DOMAIN slots \cup {NoSlot} :
       /\ StartTx(p, "delete", "none", s, 0)
       /\ IF \E b \in DOMAIN bookings :
                bookings[b].slot_id = s /\ Active(bookings[b].status)
          THEN /\ pc' = [pc EXCEPT ![p] = "done"]
               /\ tx' = [tx EXCEPT ![p] =
                           [IdleTx EXCEPT !.op = "delete", !.slot = s, !.code = "CONFLICT",
                                          !.msg = "Cannot delete slot with active bookings"]]
          ELSE /\ pc' = [pc EXCEPT ![p] = "delete_slot"]
               /\ tx' = [tx EXCEPT ![p] = NewTx("delete", "none", s, 0)]
       /\ UNCHANGED <<now, slots, bookings, slot_locks, booking_locks, cancel_ok>>

\* bookings.slot_id REFERENCES slots(id) ON DELETE CASCADE
Cascade(bks, s) == [b \in {c \in DOMAIN bks : bks[c].slot_id # s} |-> bks[b]]

\* SlotService.delete, its DELETE FROM slots WHERE id = $1, a transaction of
\* its own: it waits for the row locks of the slot and of the bookings the
\* cascade deletes, then deletes the rows as they are committed by then
DeleteSlot(p) ==
    /\ pc[p] = "delete_slot"
    /\ LET s == tx[p].slot
       IN IF s \notin DOMAIN slots
          THEN /\ Finish(p, "NOT_FOUND", "Slot not found", NULL)
               /\ UNCHANGED <<slots, bookings>>
          ELSE /\ ~SlotLockedByOther(p, s)
               /\ \A b \in DOMAIN bookings :
                     bookings[b].slot_id = s => ~BookingLockedByOther(p, b)
               /\ slots' = [t \in DOMAIN slots \ {s} |-> slots[t]]
               /\ bookings' = Cascade(bookings, s)
               /\ Finish(p, "OK", "Slot deleted successfully", NULL)
    /\ UNCHANGED <<now, win, cancel_ok, calls, swept>>

\* the administrators create and delete slots while users reserve them, at
\* most SlotCalls calls in all
SlotNext ==
    \E p \in Procs :
       \/ calls < SlotCalls /\ BookSlotSelect(p)
       \/ BookSlotInsert(p)
       \/ calls < SlotCalls /\ CreateCheck(p)
       \/ CreateInsert(p)
       \/ calls < SlotCalls /\ DeleteCheck(p)
       \/ DeleteSlot(p)

SlotSpec == Init /\ [][SlotNext]_vars

TypeOK ==
    /\ now \in 0..MaxTime
    /\ \A s \in DOMAIN slots : slots[s].is_available \in BOOLEAN
    /\ \A b \in DOMAIN bookings : bookings[b].status \in Statuses
    /\ \A p \in Procs : pc[p] \in {"idle", "done", "book_insert", "confirm_select",
                                   "confirm_release", "cancel_select", "cancel_release",
                                   "sweep", "create_insert", "delete_slot"}

\* ================================================================ claims
\* bookings that reference slot s
BookingsOf(s) == {b \in DOMAIN bookings : bookings[b].slot_id = s}

ActiveBookingsOf(s) == {b \in BookingsOf(s) : Active(bookings[b].status)}

BookErrors == {"SLOT_UNAVAILABLE", "SLOT_LOCKED", "SLOT_ALREADY_BOOKED"}

\* the calls of the current batch of reserve calls have all returned
BatchReturned == win.procs # {} /\ \A p \in win.procs : pc[p] = "done"

\* p's transaction takes the step that leaves position at
Leaves(p, at) == pc[p] = at /\ pc'[p] # at

\* p's transaction commits in this step, having been at position at
Commits(p, at) == pc[p] = at /\ pc'[p] = "done" /\ tx'[p].code # "DEADLOCK_DETECTED"

\* p runs f on a booking row of its own user
OnOwnBooking(p, f) ==
    tx[p].op = f /\ pc[p] \notin {"idle", "done"} /\ BookingRowFound(tx[p].booking, tx[p].user)

\* every booking row other than b is the same after the step
OthersUnchanged(b) ==
    /\ DOMAIN bookings' = DOMAIN bookings
    /\ \A c \in DOMAIN bookings \ {b} : bookings'[c] = bookings[c]

\* C1 (as stated): of the overlapping book_slot calls on one slot that was
\* available when the first of them started, exactly one returns success and
\* every other one returns SLOT_UNAVAILABLE, SLOT_LOCKED or SLOT_ALREADY_BOOKED.
C1_ExactlyOneReserveSucceeds ==
    BatchReturned =>
        /\ Cardinality({p \in win.procs : tx[p].code = "OK"}) = 1
        /\ \A p \in win.procs : tx[p].code \in BookErrors \cup {"OK"}

\* C2: every slot has at most one booking whose status is PENDING or CONFIRMED.
C2_AtMostOneActivePerSlot ==
    \A s \in SlotIds \cup {NoSlot} : Cardinality(ActiveBookingsOf(s)) <= 1

\* C2 witness: a reserve on a slot that holds an active booking has been refused.
C2_Witness ==
    \E p \in Procs : /\ pc[p] = "done" /\ tx[p].op = "book" /\ tx[p].code \in BookErrors
                     /\ Cardinality(ActiveBookingsOf(tx[p].slot)) = 1

\* C3: in every committed state a slot is available if and only if no
\* booking of it is PENDING or CONFIRMED.
C3_AvailableIffNoActive ==
    \A s \in DOMAIN slots : slots[s].is_available <=> ActiveBookingsOf(s) = {}

\* C3 witness: one slot is held by an active booking while another one has
\* been released again by a booking that left the active set.
C3_Witness ==
    \E s1 \in DOMAIN slots, s2 \in DOMAIN slots :
        /\ ~slots[s1].is_available /\ ActiveBookingsOf(s1) # {}
        /\ slots[s2].is_available /\ BookingsOf(s2) # {}

\* C4 (as stated): a book_slot on an available slot all of whose bookings are
\* FAILED or CANCELLED, with no other transaction in flight, succeeds and
\* creates a PENDING booking of the caller.
C4_ReservableAgain ==
    [][\A p \in Procs :
          (/\ Commits(p, "book_insert")
           /\ SlotRowFound(tx[p].slot)
           /\ \A b \in BookingsOf(tx[p].slot) : ~Active(bookings[b].status)
           /\ \A q \in Procs \ {p} : pc[q] \in {"idle", "done"})
          => /\ tx'[p].code = "OK"
             /\ Len(bookings') = Len(bookings) + 1
             /\ bookings'[Len(bookings')].status = "PENDING"
             /\ bookings'[Len(bookings')].user_id = tx[p].user
             /\ bookings'[Len(bookings')].slot_id = tx[p].slot]_vars

\* C5: a confirm by the owner of a PENDING booking whose expires_at is before
\* the confirm's NOW() never makes it CONFIRMED; it returns BOOKING_EXPIRED
\* and commits the booking FAILED and its slot available.
C5_ExpiredConfirmFails ==
    [][\A p \in Procs :
          LET b == tx[p].booking IN
          (/\ OnOwnBooking(p, "confirm")
           /\ bookings[b].status = "PENDING"
           /\ bookings[b].expires_at < tx[p].now
           /\ pc'[p] # pc[p])
          => /\ bookings'[b].status # "CONFIRMED"
             /\ pc'[p] \in {"confirm_release", "done"}
             /\ pc'[p] = "done" =>
                   /\ tx'[p].code = "BOOKING_EXPIRED"
                   /\ bookings'[b].status = "FAILED"
                   /\ slots'[bookings[b].slot_id].is_available]_vars

\* C5 witness: a confirm has returned BOOKING_EXPIRED for a booking that is
\* now FAILED with its slot available.
C5_Witness ==
    \E p \in Procs :
        /\ pc[p] = "done" /\ tx[p].op = "confirm" /\ tx[p].code = "BOOKING_EXPIRED"
        /\ bookings[tx[p].booking].status = "FAILED"
        /\ slots[bookings[tx[p].booking].slot_id].is_available

\* C6 (as stated): a confirm whose NOW() is at or after the booking's
\* expires_at never moves the booking to CONFIRMED.
C6_ConfirmOnlyStrictlyBeforeDeadline ==
    [][\A p \in Procs :
          LET b == tx[p].booking IN
          (/\ OnOwnBooking(p, "confirm")
           /\ bookings[b].status = "PENDING"
           /\ tx[p].now >= bookings[b].expires_at)
          => bookings'[b].status # "CONFIRMED"]_vars

\* C7: a confirm by the owner of a PENDING booking whose deadline has not
\* been reached succeeds; a successful confirm sets status CONFIRMED,
\* confirmed_at = NOW() and expires_at NULL on that row (the trigger stamps
\* updated_at), and changes no other column, no other booking and no slot:
\* the booking's slot stays unavailable.
C7_ConfirmEffect ==
    [][\A p \in Procs :
          LET b == tx[p].booking IN
          /\ (/\ OnOwnBooking(p, "confirm")
              /\ Leaves(p, "confirm_select")
              /\ bookings[b].status = "PENDING"
              /\ tx[p].now < bookings[b].expires_at)
             => (pc'[p] = "done" /\ tx'[p].code = "OK")
          /\ (tx[p].op = "confirm" /\ pc[p] # "done" /\ pc'[p] = "done" /\ tx'[p].code = "OK")
             => /\ bookings[b].status = "PENDING"
                /\ bookings'[b] = [bookings[b] EXCEPT !.status = "CONFIRMED",
                                                      !.confirmed_at = tx[p].now,
                                                      !.expires_at = NULL,
                                                      !.updated_at = tx[p].now]
                /\ OthersUnchanged(b)
                /\ slots' = slots
                /\ ~slots'[bookings[b].slot_id].is_available]_vars

\* C7 witness: a confirm has succeeded while the other slot's state differs
\* from the confirmed booking's slot (so a change to it would have shown).
C7_Witness ==
    \E p \in Procs :
        /\ pc[p] = "done" /\ tx[p].op = "confirm" /\ tx[p].code = "OK"
        /\ bookings[tx[p].booking].status = "CONFIRMED"
        /\ bookings[tx[p].booking].expires_at = NULL
        /\ Len(bookings) = 2

\* C8: a cancel by the owner of a PENDING or CONFIRMED booking succeeds and
\* commits, in one step, status CANCELLED, cancelled_at = NOW() and the
\* booking's slot available; no committed state has a CANCELLED booking whose
\* slot is unavailable.
C8_CancelReleasesSlot ==
    /\ [](\A b \in DOMAIN bookings :
             (bookings[b].status = "CANCELLED" /\ bookings[b].slot_id \in DOMAIN slots)
             => slots[bookings[b].slot_id].is_available)
    /\ [][\A p \in Procs :
             LET b == tx[p].booking IN
             (/\ OnOwnBooking(p, "cancel")
              /\ Active(bookings[b].status)
              /\ pc'[p] # pc[p])
             => /\ pc'[p] \in {"cancel_release", "done"}
                /\ pc'[p] = "cancel_release" => (bookings' = bookings /\ slots' = slots)
                /\ pc'[p] = "done" =>
                      /\ tx'[p].code = "OK"
                      /\ bookings'[b].status = "CANCELLED"
                      /\ bookings'[b].cancelled_at = tx[p].now
                      /\ slots'[bookings[b].slot_id].is_available]_vars

\* C8 witness: a cancel of a CONFIRMED booking has succeeded.
C8_Witness ==
    \E p \in Procs :
        /\ pc[p] = "done" /\ tx[p].op = "cancel" /\ tx[p].code = "OK"
        /\ bookings[tx[p].booking].status = "CANCELLED"
        /\ bookings[tx[p].booking].confirmed_at # NULL
        /\ slots[bookings[tx[p].booking].slot_id].is_available

\* C9: a booking is cancelled successfully at most once; a cancel by the
\* owner that finds the booking PENDING or CONFIRMED goes on to succeed, and
\* one that finds it FAILED or CANCELLED (so every cancel after a successful
\* one, sequential or concurrent) returns INVALID_STATUS and changes no
\* booking and no slot.
C9_CancelOnce ==
    /\ [](\A b \in BookingIds : cancel_ok[b] <= 1)
    /\ [](\A p \in Procs, q \in Procs :
             (/\ p # q /\ pc[p] = "done" /\ pc[q] = "done"
              /\ tx[p].op = "cancel" /\ tx[q].op = "cancel"
              /\ tx[p].booking = tx[q].booking)
             => ~(tx[p].code = "OK" /\ tx[q].code = "OK"))
    /\ [][\A p \in Procs :
             LET b == tx[p].booking IN
             (OnOwnBooking(p, "cancel") /\ Leaves(p, "cancel_select"))
             => IF Active(bookings[b].status)
                THEN pc'[p] = "cancel_release"
                ELSE /\ pc'[p] = "done"
                     /\ tx'[p].code = "INVALID_STATUS"
                     /\ bookings' = bookings
                     /\ slots' = slots
                     /\ cancel_ok' = cancel_ok]_vars

\* C9 witness: two cancels of the same booking have returned, one with
\* success and the other with INVALID_STATUS.
C9_Witness ==
    \E p \in Procs, q \in Procs :
        /\ pc[p] = "done" /\ pc[q] = "done"
        /\ tx[p].op = "cancel" /\ tx[q].op = "cancel"
        /\ tx[p].booking = tx[q].booking
        /\ tx[p].code = "OK" /\ tx[q].code = "INVALID_STATUS"

\* C10: a confirm by the owner of a booking that is CONFIRMED, FAILED or
\* CANCELLED returns INVALID_STATUS with the current status in its message
\* and changes no booking (confirmed_at included) and no slot.
C10_ConfirmInvalidStatus ==
    [][\A p \in Procs :
          LET b == tx[p].booking IN
          (/\ OnOwnBooking(p, "confirm")
           /\ Leaves(p, "confirm_select")
           /\ bookings[b].status \in {"CONFIRMED", "FAILED", "CANCELLED"})
          => /\ pc'[p] = "done"
             /\ tx'[p].code = "INVALID_STATUS"
             /\ tx'[p].msg = bookings[b].status
             /\ bookings' = bookings
             /\ slots' = slots]_vars

\* C10 witness: a second confirm of a CONFIRMED booking has been refused.
C10_Witness ==
    \E p \in Procs :
        /\ pc[p] = "done" /\ tx[p].op = "confirm" /\ tx[p].code = "INVALID_STATUS"
        /\ tx[p].msg = "CONFIRMED"
        /\ bookings[tx[p].booking].confirmed_at # NULL

\* C11: a sweep's snapshot holds exactly the committed bookings that are
\* PENDING with expires_at before its NOW(); a row of the snapshot is taken
\* exactly when it still is PENDING and expired once its lock is free; and the
\* commit moves exactly the taken rows from PENDING to FAILED, sets the slot
\* of each available, changes nothing else of any booking or slot, and
\* returns the number of bookings it moved.
C11_SweepEffect ==
    [][\A p \in Procs :
          LET due(b) == bookings[b].status = "PENDING" /\ bookings[b].expires_at < tx'[p].now
              freed == {bookings[b].slot_id : b \in tx[p].hit}
          IN
          /\ (pc[p] # "sweep" /\ pc'[p] = "sweep")
             => /\ tx'[p].now = now
                /\ tx'[p].rows = {b \in DOMAIN bookings : due(b)}
                /\ tx'[p].hit = {}
                /\ bookings' = bookings /\ slots' = slots
          /\ (pc[p] = "sweep" /\ pc'[p] = "sweep"
              /\ (tx'[p] # tx[p] \/ slot_locks'[p] # slot_locks[p]))
             => /\ bookings' = bookings /\ slots' = slots
                /\ tx'[p].rows \subseteq tx[p].rows
                /\ tx[p].hit \subseteq tx'[p].hit
                /\ tx'[p].hit \ tx[p].hit = {b \in tx[p].rows \ tx'[p].rows : due(b)}
          /\ Commits(p, "sweep")
             => /\ DOMAIN bookings' = DOMAIN bookings
                /\ \A b \in DOMAIN bookings :
                      IF b \in tx[p].hit
                      THEN /\ bookings[b].status = "PENDING"
                           /\ bookings[b].expires_at < tx[p].now
                           /\ bookings'[b] = [bookings[b] EXCEPT !.status = "FAILED",
                                                                 !.updated_at = tx[p].now]
                      ELSE bookings'[b] = bookings[b]
                /\ DOMAIN slots' = DOMAIN slots
                /\ \A s \in DOMAIN slots :
                      IF s \in freed
                      THEN slots'[s] = [slots[s] EXCEPT !.is_available = TRUE]
                      ELSE slots'[s] = slots[s]
                /\ tx'[p].code = "OK"
                /\ tx'[p].count = Cardinality(tx[p].hit)]_vars

\* C11 witness: a sweep has returned 1 having failed one booking and left
\* another booking, whose deadline had not passed, PENDING.
C11_Witness ==
    \E p \in Procs, b \in DOMAIN bookings, c \in DOMAIN bookings :
        /\ pc[p] = "done" /\ tx[p].op = "sweep" /\ tx[p].count = 1
        /\ bookings[b].status = "FAILED" /\ bookings[b].confirmed_at = NULL
        /\ bookings[c].status = "PENDING"
        /\ ~slots[bookings[c].slot_id].is_available
        /\ slots[bookings[b].slot_id].is_available

\* the sweep p commits in this step and the sweep before it had returned
\* before p started, with no book_slot in flight or started since that
\* earlier sweep started
SecondSweepCommits(p) == Commits(p, "sweep") /\ swept.at # NULL /\ swept.prev # NULL

\* C12 (as stated): the second of two sweeps in succession with no book_slot
\* in between returns 0 and changes no booking and no slot.
C12_SecondSweepReturnsZero ==
    [][\A p \in Procs :
          SecondSweepCommits(p)
          => /\ tx'[p].count = 0
             /\ bookings' = bookings
             /\ slots' = slots]_vars

\* C12 (amended): the second of two sweeps in succession with no book_slot in
\* between returns 0 and changes no booking and no slot, provided no PENDING
\* booking has its deadline at or after the first sweep's NOW() and before
\* the second sweep's NOW().
C12_SweepIdempotent ==
    [][\A p \in Procs :
          (/\ SecondSweepCommits(p)
           /\ \A b \in DOMAIN bookings :
                 bookings[b].status = "PENDING"
                 => ~(swept.prev <= bookings[b].expires_at /\ bookings[b].expires_at < swept.at))
          => /\ tx'[p].count = 0
             /\ bookings' = bookings
             /\ slots' = slots]_vars

\* C12 witness: a sweep that failed a booking has been followed, with no
\* book_slot in between, by a second sweep that returned 0.
C12_Witness ==
    \E p \in Procs :
        /\ pc[p] = "done" /\ tx[p].op = "sweep" /\ tx[p].count = 0
        /\ swept.at # NULL /\ swept.prev # NULL
        /\ \E b \in DOMAIN bookings :
              bookings[b].status = "FAILED" /\ bookings[b].confirmed_at = NULL

\* C13: a confirm and a sweep racing for one PENDING booking never both move
\* it. No booking row is locked by two transactions; a booking leaves PENDING
\* for CONFIRMED or FAILED in the commit of exactly one transaction (a confirm
\* returning success, a confirm returning BOOKING_EXPIRED, or a sweep that
\* counts it); a CONFIRMED booking's slot is unavailable and a FAILED
\* booking's slot is available; a booking whose confirm returned success is
\* never FAILED; the confirm that comes second returns INVALID_STATUS and
\* the sweep that comes second drops the row without counting it.
C13_ConfirmSweepRace ==
    /\ [](\A b \in DOMAIN bookings :
             /\ Cardinality({p \in Procs : b \in booking_locks[p]}) <= 1
             /\ bookings[b].status = "CONFIRMED" => ~slots[bookings[b].slot_id].is_available
             /\ bookings[b].status = "FAILED" => slots[bookings[b].slot_id].is_available
             /\ \A p \in Procs :
                   (pc[p] = "done" /\ tx[p].op = "confirm" /\ tx[p].code = "OK"
                    /\ tx[p].booking = b)
                   => bookings[b].status # "FAILED")
    /\ [][\A b \in DOMAIN bookings :
             /\ bookings[b].status = "CONFIRMED" => bookings'[b].status # "FAILED"
             /\ bookings[b].status = "FAILED" => bookings'[b].status = "FAILED"
             /\ (bookings[b].status = "PENDING" /\ bookings'[b].status \in {"CONFIRMED", "FAILED"})
                => \E p \in Procs :
                      /\ pc[p] # "done" /\ pc'[p] = "done"
                      /\ \A q \in Procs \ {p} : pc'[q] = pc[q] /\ b \notin booking_locks[q]
                      /\ \/ /\ tx[p].op = "confirm" /\ tx[p].booking = b
                            /\ tx'[p].code = "OK" /\ bookings'[b].status = "CONFIRMED"
                         \/ /\ tx[p].op = "confirm" /\ tx[p].booking = b
                            /\ tx'[p].code = "BOOKING_EXPIRED" /\ bookings'[b].status = "FAILED"
                         \/ /\ tx[p].op = "sweep" /\ b \in tx[p].hit
                            /\ tx'[p].count = Cardinality(tx[p].hit)
                            /\ bookings'[b].status = "FAILED"
             /\ \A p \in Procs :
                   /\ (/\ OnOwnBooking(p, "confirm") /\ tx[p].booking = b
                       /\ Leaves(p, "confirm_select")
                       /\ bookings[b].status \in {"CONFIRMED", "FAILED"})
                      => (tx'[p].code = "INVALID_STATUS" /\ bookings' = bookings /\ slots' = slots)
                   /\ (/\ pc[p] = "sweep" /\ pc'[p] = "sweep"
                       /\ b \in tx[p].rows \ tx'[p].rows
                       /\ bookings[b].status # "PENDING")
                      => (b \notin tx'[p].hit /\ b \notin booking_locks'[p])]_vars

\* C13 witness: a confirm by the owner is waiting for a booking row that a
\* sweep in flight has locked.
C13_Witness ==
    \E p \in Procs, q \in Procs :
        /\ pc[p] = "confirm_select" /\ OnOwnBooking(p, "confirm")
        /\ pc[q] = "sweep" /\ tx[p].booking \in booking_locks[q] /\ tx[p].booking \in tx[q].hit

\* C14 (as stated): two overlapping sweeps never take the same booking; every
\* booking a sweep has taken is PENDING and expired until that sweep ends;
\* every sweep ends by returning a count, which is the number of bookings
\* (all of those it took) that it failed in that step, so the counts of two
\* sweeps add up to the number of bookings failed; and after every commit a
\* slot is available exactly when it has no PENDING or CONFIRMED booking.
C14_ConcurrentSweeps ==
    /\ [](/\ \A p \in Procs, q \in Procs :
                (p # q /\ pc[p] = "sweep" /\ pc[q] = "sweep")
                => tx[p].hit \cap tx[q].hit = {}
          /\ \A p \in Procs :
                pc[p] = "sweep"
                => \A b \in tx[p].hit :
                      bookings[b].status = "PENDING" /\ bookings[b].expires_at < tx[p].now
          /\ \A s \in DOMAIN slots : slots[s].is_available <=> ActiveBookingsOf(s) = {})
    /\ [][\A p \in Procs :
             (pc[p] = "sweep" /\ pc'[p] = "done")
             => LET failed == {b \in DOMAIN bookings :
                                 bookings[b].status # "FAILED" /\ bookings'[b].status = "FAILED"}
                IN /\ tx'[p].code = "OK"
                   /\ failed = tx[p].hit
                   /\ tx'[p].count = Cardinality(failed)
                   /\ \A q \in Procs \ {p} : pc'[q] = pc[q] /\ tx'[q] = tx[q]]_vars

\* C15: with the clock advancing and the scheduler sweeping for ever, every
\* booking that is PENDING with a deadline the clock can pass is eventually
\* CONFIRMED, CANCELLED, or FAILED with its slot available again: none stays
\* PENDING for ever, whichever sweeps passed it over or were aborted before.
C15_Reclamation ==
    \A b \in BookingIds :
        (/\ b \in DOMAIN bookings
         /\ bookings[b].status = "PENDING"
         /\ bookings[b].expires_at < MaxTime)
        ~> (/\ b \in DOMAIN bookings
            /\ \/ bookings[b].status \in {"CONFIRMED", "CANCELLED"}
               \/ /\ bookings[b].status = "FAILED"
                  /\ slots[bookings[b].slot_id].is_available)

\* C15 witness: a sweep that found a booking with its deadline still ahead
\* and returned 0 has been followed by a sweep that failed that booking.
C15_Witness ==
    \E p \in Procs, b \in DOMAIN bookings :
        /\ pc[p] = "done" /\ tx[p].op = "sweep" /\ tx[p].count = 1
        /\ swept.prev # NULL /\ swept.prev <= bookings[b].expires_at
        /\ bookings[b].status = "FAILED" /\ bookings[b].updated_at = swept.at
        /\ slots[bookings[b].slot_id].is_available

\* what a call returned
Answer(t) == [code |-> t.code, msg |-> t.msg, count |-> t.count, result |-> t.result]

\* the failure a call on a booking id that does not exist returns
NotFound(op) ==
    [code |-> IF op = "get" THEN "NOT_FOUND" ELSE "BOOKING_NOT_FOUND",
     msg |-> "Booking not found", count |-> NULL, result |-> << >>]

\* p calls getById in this step
Gets(p) ==
    /\ calls' = calls + 1 /\ pc[p] \in {"idle", "done"}
    /\ pc'[p] = "done" /\ tx'[p].op = "get"
    /\ \A q \in Procs \ {p} : pc'[q] = pc[q] /\ tx'[q] = tx[q]

\* p's confirm, cancel or getById looks its booking row up in this step
LooksUp(p) == Leaves(p, "confirm_select") \/ Leaves(p, "cancel_select") \/ Gets(p)

\* C16: a confirm, cancel or getById by an ordinary user on a booking of
\* another user returns at once the failure it returns on an id that does
\* not exist (not found, 'Booking not found', no row) and changes no booking,
\* no slot and no lock; and no confirm or cancel, whoever calls it, changes a
\* booking that is not the caller's.
C16_ForeignLooksMissing ==
    [][\A p \in Procs :
          LET u == tx'[p].user
              b == tx'[p].booking
              foreign == b \in DOMAIN bookings /\ bookings[b].user_id # u
              missing == b \notin DOMAIN bookings
          IN /\ (LooksUp(p) /\ Role(u) = "USER" /\ (foreign \/ missing))
                => /\ pc'[p] = "done"
                   /\ Answer(tx'[p]) = NotFound(tx'[p].op)
                   /\ bookings' = bookings /\ slots' = slots
                   /\ booking_locks' = booking_locks /\ slot_locks' = slot_locks
             /\ \A c \in DOMAIN bookings :
                   (/\ tx[p].op \in {"confirm", "cancel"}
                    /\ pc[p] # "done" /\ pc'[p] = "done"
                    /\ bookings'[c] # bookings[c])
                   => (tx[p].booking = c /\ tx[p].user = bookings[c].user_id)]_vars

\* C16 witness: an ordinary user's confirm and cancel of another user's
\* PENDING booking, or confirm and getById, have both returned not found,
\* and the booking still is PENDING.
C16_Witness ==
    \E p \in Procs, q \in Procs :
        LET b == tx[p].booking IN
        /\ p # q /\ pc[p] = "done" /\ pc[q] = "done"
        /\ tx[p].op = "confirm" /\ tx[q].op \in {"cancel", "get"}
        /\ tx[q].booking = b /\ b \in DOMAIN bookings
        /\ Role(tx[p].user) = "USER" /\ Role(tx[q].user) = "USER"
        /\ bookings[b].user_id # tx[p].user
        /\ bookings[b].status = "PENDING"
        /\ tx[p].code = "BOOKING_NOT_FOUND" /\ tx[q].code \in {"BOOKING_NOT_FOUND", "NOT_FOUND"}

\* C17 (as stated): a confirm, cancel or getById by an administrator on a
\* booking of another user does not return not found.
C17_AdminBypass ==
    [][\A p \in Procs :
          LET u == tx'[p].user
              b == tx'[p].booking
          IN (/\ LooksUp(p) /\ Role(u) = "ADMIN"
              /\ b \in DOMAIN bookings /\ bookings[b].user_id # u)
             => tx'[p].code \notin {"NOT_FOUND", "BOOKING_NOT_FOUND"}]_vars

\* the status changes of the reservation state machine
Transitions ==
    {<<"PENDING", "CONFIRMED">>, <<"PENDING", "FAILED">>,
     <<"PENDING", "CANCELLED">>, <<"CONFIRMED", "CANCELLED">>}

\* C18: no booking row ever disappears, every new booking is PENDING, and in
\* every step of every transaction a booking either keeps its status or
\* goes PENDING -> CONFIRMED, PENDING -> FAILED, PENDING -> CANCELLED or
\* CONFIRMED -> CANCELLED; so a FAILED or CANCELLED booking keeps its status
\* for ever.
C18_StatusTransitions ==
    [][/\ DOMAIN bookings \subseteq DOMAIN bookings'
       /\ \A b \in DOMAIN bookings' :
             IF b \in DOMAIN bookings
             THEN \/ bookings'[b].status = bookings[b].status
                  \/ <<bookings[b].status, bookings'[b].status>> \in Transitions
             ELSE bookings'[b].status = "PENDING"]_vars

\* C18 witness: a booking went from PENDING to CANCELLED and a later confirm
\* or cancel of it by its owner was refused.
C18_Witness ==
    \E p \in Procs :
        /\ pc[p] = "done" /\ tx[p].op \in {"confirm", "cancel"}
        /\ tx[p].code = "INVALID_STATUS" /\ tx[p].msg = "CANCELLED"
        /\ tx[p].booking \in DOMAIN bookings
        /\ tx[p].user = bookings[tx[p].booking].user_id
        /\ bookings[tx[p].booking].status = "CANCELLED"

\* C19 (as stated): a booking has a non-null expires_at only while it is
\* PENDING.
C19_DeadlineOnlyWhilePending ==
    \A b \in DOMAIN bookings :
        bookings[b].expires_at # NULL => bookings[b].status = "PENDING"

\* C20: a booking row appears only in the commit of a successful book_slot,
\* one row per commit; that commit appends the row (caller, slot, the slot's
\* doctor, PENDING, expires_at = NOW() + 2, no confirmed_at or cancelled_at),
\* returns its id, sets that slot unavailable and changes no other booking
\* and no other slot; and in every state a booking's doctor is its slot's.
C20_ReserveEffect ==
    /\ [](\A b \in DOMAIN bookings :
             /\ bookings[b].slot_id \in DOMAIN slots
             /\ bookings[b].doctor_id = slots[bookings[b].slot_id].doctor_id)
    /\ [][/\ Len(bookings') # Len(bookings)
             => \E p \in Procs : Commits(p, "book_insert") /\ tx'[p].code = "OK"
          /\ \A p \in Procs :
                (Commits(p, "book_insert") /\ tx'[p].code = "OK")
                => LET s == tx[p].slot
                       id == Len(bookings) + 1
                   IN /\ Len(bookings') = id
                      /\ tx'[p].booking = id
                      /\ bookings'[id] =
                            [user_id |-> tx[p].user, slot_id |-> s,
                             doctor_id |-> slots[s].doctor_id, status |-> "PENDING",
                             expires_at |-> tx[p].now + 2, confirmed_at |-> NULL,
                             cancelled_at |-> NULL, updated_at |-> tx[p].now]
                      /\ \A c \in DOMAIN bookings : bookings'[c] = bookings[c]
                      /\ slots[s].is_available
                      /\ slots' = [slots EXCEPT ![s].is_available = FALSE]]_vars

\* C20 witness: a reserve has succeeded on one slot while the other slot's
\* booking and flag were there to be left alone.
C20_Witness ==
    \E p \in Procs :
        /\ pc[p] = "done" /\ tx[p].op = "book" /\ tx[p].code = "OK"
        /\ tx[p].booking = 2 /\ Len(bookings) = 2
        /\ bookings[2].status = "PENDING" /\ bookings[2].user_id = tx[p].user
        /\ ~slots[bookings[2].slot_id].is_available
        /\ bookings[1].status = "CONFIRMED"

\* p starts a book_slot call in this step: it is the only connection whose
\* call record changes, and the record is that of a book_slot just started
StartsBook(p) ==
    /\ pc[p] \in {"idle", "done"}
    /\ calls' = calls + 1
    /\ tx'[p].op = "book"
    /\ tx'[p] # tx[p] \/ pc'[p] # pc[p]
    /\ \A q \in Procs \ {p} : tx'[q] = tx[q] /\ pc'[q] = pc[q]

\* C21: book_slot never waits and tells its failures apart. A book_slot that
\* finds the slot row locked by another book_slot in flight returns
\* SLOT_LOCKED in the step that starts it, taking no lock; a book_slot on an
\* existing slot whose is_available is false, with no transaction in flight,
\* returns SLOT_UNAVAILABLE in the step that starts it; and a book_slot that
\* holds its slot's lock can always execute its INSERT at once.
C21_ReserveFailFast ==
    /\ [][\A p \in Procs :
             LET s == tx'[p].slot IN
             /\ (/\ StartsBook(p)
                 /\ \E q \in Procs \ {p} : pc[q] = "book_insert" /\ s \in slot_locks[q])
                => /\ pc'[p] = "done" /\ tx'[p].code = "SLOT_LOCKED"
                   /\ slot_locks' = slot_locks /\ booking_locks' = booking_locks
                   /\ bookings' = bookings /\ slots' = slots
             /\ (/\ StartsBook(p)
                 /\ s \in DOMAIN slots /\ ~slots[s].is_available
                 /\ Quiet)
                => /\ pc'[p] = "done" /\ tx'[p].code = "SLOT_UNAVAILABLE"
                   /\ ActiveBookingsOf(s) # {}
                   /\ bookings' = bookings /\ slots' = slots]_vars
    /\ [](\A p \in Procs : pc[p] = "book_insert" => ENABLED BookSlotInsert(p))

\* C21 witness: one book_slot was refused with SLOT_LOCKED while another held
\* the slot's lock, and after that one committed a third book_slot on the
\* slot was refused with SLOT_UNAVAILABLE.
C21_Witness ==
    \E p \in Procs, q \in Procs :
        /\ p # q
        /\ pc[p] = "done" /\ tx[p].op = "book" /\ tx[p].code = "SLOT_LOCKED"
        /\ pc[q] = "done" /\ tx[q].op = "book" /\ tx[q].code = "SLOT_UNAVAILABLE"
        /\ tx[q].slot = tx[p].slot
        /\ Cardinality(ActiveBookingsOf(tx[p].slot)) = 1

\* C22 (as stated): the record a successful BookingService.confirm returns
\* has status CONFIRMED.
C22_ConfirmReturnsConfirmed ==
    \A p \in Procs :
        (pc[p] = "done" /\ tx[p].op = "confirm" /\ tx[p].code = "OK" /\ tx[p].result # << >>)
        => tx[p].result[1].status = "CONFIRMED"

\* C23 (as stated): a book_slot on a slot id that references no row of slots
\* fails, with an error that is none of SLOT_UNAVAILABLE, SLOT_LOCKED and
\* SLOT_ALREADY_BOOKED, and creates no booking.
C23_UnknownSlotNotFound ==
    [][\A p \in Procs :
          (StartsBook(p) /\ tx'[p].slot \notin DOMAIN slots)
          => /\ pc'[p] = "done"
             /\ tx'[p].code \notin BookErrors \cup {"OK"}
             /\ bookings' = bookings]_vars

Returns(p) ==
    /\ pc'[p] = "done"
    /\ tx'[p].op \in {"book", "confirm", "cancel"}
    /\ \/ StartsBook(p)
       \/ pc[p] \in {"book_insert", "confirm_select", "confirm_release",
                     "cancel_select", "cancel_release"}

\* C25: a book_slot that returns SLOT_UNAVAILABLE, SLOT_LOCKED or
\* SLOT_ALREADY_BOOKED, and a confirm or cancel that returns
\* BOOKING_NOT_FOUND or INVALID_STATUS, changes no booking and no slot; of
\* all the calls that return a failure only the confirm that returns
\* BOOKING_EXPIRED changes anything.
C25_FailuresChangeNothing ==
    [][\A p \in Procs :
          /\ (Returns(p)
              /\ tx'[p].code \in BookErrors \cup {"BOOKING_NOT_FOUND", "INVALID_STATUS"})
             => (bookings' = bookings /\ slots' = slots)
          /\ (Returns(p) /\ tx'[p].code # "OK"
              /\ (bookings' # bookings \/ slots' # slots))
             => (tx'[p].op = "confirm" /\ tx'[p].code = "BOOKING_EXPIRED")]_vars

\* C25 witness: a book_slot on an available slot failed on the uniqueness
\* constraint (SLOT_ALREADY_BOOKED); the slot is still available and holds
\* no booking but the old inactive one.
C25_Witness ==
    \E p \in Procs :
        /\ pc[p] = "done" /\ tx[p].op = "book" /\ tx[p].code = "SLOT_ALREADY_BOOKED"
        /\ tx[p].slot \in DOMAIN slots /\ slots[tx[p].slot].is_available
        /\ Cardinality(BookingsOf(tx[p].slot)) = 1
        /\ ActiveBookingsOf(tx[p].slot) = {}

\* C26 (as stated): no transaction is ever in a cycle of transactions that
\* wait for each other's row locks; a sweep locks slot rows only after all
\* its booking rows; and a book_slot in flight waits for nothing.
C26_NoDeadlock ==
    \A p \in Procs :
        /\ ~Deadlocked(p)
        /\ (pc[p] = "sweep" /\ slot_locks[p] # {}) => tx[p].rows = {}
        /\ pc[p] = "book_insert" => WaitsFor(p) = {}

\* C27: cancel_booking does not look at the deadline. A cancel by the owner
\* of a PENDING booking whose expires_at is before the cancel's NOW() is not
\* refused: it locks the row, and its commit returns success and leaves the
\* booking CANCELLED (not FAILED) and the slot available. A cancel by the
\* owner that finds the booking FAILED, a sweep having come first, returns
\* INVALID_STATUS and changes nothing.
C27_CancelIgnoresDeadline ==
    [][\A p \in Procs :
          LET b == tx[p].booking IN
          /\ (/\ OnOwnBooking(p, "cancel") /\ Leaves(p, "cancel_select")
              /\ bookings[b].status = "PENDING" /\ bookings[b].expires_at < tx[p].now)
             => /\ pc'[p] = "cancel_release" /\ b \in booking_locks'[p]
                /\ bookings' = bookings /\ slots' = slots
          /\ (/\ OnOwnBooking(p, "cancel") /\ Leaves(p, "cancel_release")
              /\ bookings[b].status = "PENDING" /\ bookings[b].expires_at < tx[p].now)
             => /\ pc'[p] = "done" /\ tx'[p].code = "OK"
                /\ bookings'[b].status = "CANCELLED"
                /\ bookings'[b].cancelled_at = tx[p].now
                /\ slots'[bookings[b].slot_id].is_available
          /\ (/\ OnOwnBooking(p, "cancel") /\ Leaves(p, "cancel_select")
              /\ bookings[b].status = "FAILED")
             => /\ pc'[p] = "done" /\ tx'[p].code = "INVALID_STATUS"
                /\ tx'[p].msg = "FAILED"
                /\ bookings' = bookings /\ slots' = slots]_vars

\* C27 witness: a booking that was never confirmed has been cancelled by its
\* owner after its deadline, and its slot is available.
C27_Witness ==
    \E p \in Procs :
        LET b == tx[p].booking IN
        /\ pc[p] = "done" /\ tx[p].op = "cancel" /\ tx[p].code = "OK"
        /\ b \in DOMAIN bookings /\ bookings[b].status = "CANCELLED"
        /\ bookings[b].confirmed_at = NULL
        /\ bookings[b].expires_at # NULL
        /\ bookings[b].cancelled_at > bookings[b].expires_at
        /\ slots[bookings[b].slot_id].is_available

\* C28: in every state cancelled_at is set exactly on the CANCELLED bookings,
\* confirmed_at is set on every CONFIRMED booking and on no PENDING or FAILED
\* one, and a CONFIRMED booking has no expires_at; in every step confirmed_at
\* goes from null to set exactly when the booking becomes CONFIRMED and,
\* once set, is never changed (a cancel keeps it). So confirmed_at is set if
\* and only if the booking was CONFIRMED at some point.
C28_Timestamps ==
    /\ [](\A b \in DOMAIN bookings :
             /\ bookings[b].cancelled_at # NULL <=> bookings[b].status = "CANCELLED"
             /\ bookings[b].status = "CONFIRMED"
                => (bookings[b].confirmed_at # NULL /\ bookings[b].expires_at = NULL)
             /\ bookings[b].status \in {"PENDING", "FAILED"}
                => bookings[b].confirmed_at = NULL)
    /\ [][\A b \in DOMAIN bookings :
             /\ (bookings[b].confirmed_at = NULL /\ bookings'[b].confirmed_at # NULL)
                <=> (bookings[b].status # "CONFIRMED" /\ bookings'[b].status = "CONFIRMED")
             /\ bookings[b].confirmed_at # NULL
                => bookings'[b].confirmed_at = bookings[b].confirmed_at]_vars

\* C28 witness: a booking was confirmed and then cancelled; it carries both
\* timestamps, cancelled_at the later one, and no deadline.
C28_Witness ==
    \E b \in DOMAIN bookings :
        /\ bookings[b].status = "CANCELLED"
        /\ bookings[b].confirmed_at # NULL /\ bookings[b].expires_at = NULL
        /\ bookings[b].cancelled_at > bookings[b].confirmed_at

\* C29 (as stated): no step removes a booking that is PENDING or CONFIRMED,
\* or the slot of one.
C29_DeleteSparesActive ==
    [][\A b \in DOMAIN bookings :
          Active(bookings[b].status)
          => (b \in DOMAIN bookings' /\ bookings[b].slot_id \in DOMAIN slots')]_vars

\* the half-open intervals of two slot rows overlap
Intersect(r1, r2) == r1.start_time < r2.end_time /\ r2.start_time < r1.end_time

\* C30 (as stated): no two slots of one doctor have overlapping intervals
\* [start_time, end_time).
C30_NoOverlappingSlots ==
    \A s \in DOMAIN slots, t \in DOMAIN slots :
        (s # t /\ slots[s].doctor_id = slots[t].doctor_id)
        => ~Intersect(slots[s], slots[t])

====
